---- MODULE Spec2Model ----
(***************************************************************************)
(* Overlay resolution of libs/inspecJS/src/context.ts: contextualizing an  *)
(* evaluation (profiles linked by declared parentage, controls linked by   *)
(* the two-tier algorithm), contextualizing a single profile, and the      *)
(* derived views root, is_redundant and full_code of a control.            *)
(*                                                                         *)
(* Object references are indices: a profile wrapper is named by its        *)
(* position in eval_context.contains, a control wrapper by its position in *)
(* all_controls.  Strings that are trimmed or concatenated are sequences   *)
(* of characters; the 57-character rule of the banner and the profile name  *)
(* are one (non-blank) element each.                                       *)
(***************************************************************************)
EXTENDS Integers, Sequences, FiniteSets, TLC

VARIABLES evaluation, pc, eval_context, profile_context, all_controls

vars == <<evaluation, pc, eval_context, profile_context, all_controls>>

\* ---------------------------------------------------------------- bounds
\* Profiles of an evaluation, and controls of an evaluation (all profiles).
MaxProfiles == 3
MaxControls == 3
\* The same two, for the evaluations whose controls differ in code.
MaxCodeProfiles == 2
MaxCodeControls == 2

\* ---------------------------------------------------------------- inputs
undefined == "undefined"
null == "null"

ProfileNames == {"A", "B"}
ControlIds == {"x", "y"}
\* A result list: empty, or one recorded segment.
ResultLists == {<<>>, <<"passed">>}
\* Control code as characters: empty, blank, and two different texts.
Codes == {<<>>, <<" ">>, <<"a">>, <<"b">>}

RawControls(codes, results) ==
  [id : ControlIds, code : codes, results : results]

RECURSIVE SumTo(_, _)
SumTo(lens, i) == IF i = 0 THEN 0 ELSE SumTo(lens, i - 1) + lens[i]

\* The evaluation of Len(meta) profiles, profile i named meta[i][1] with
\* parent_profile meta[i][2] and holding the next lens[i] controls of flat.
BuildEvaluation(meta, lens, flat) ==
  LET offs == [i \in 1..Len(meta) |-> SumTo(lens, i - 1)]
  IN [i \in 1..Len(meta) |->
       [name |-> meta[i][1], parent_profile |-> meta[i][2],
        controls |-> [j \in 1..lens[i] |-> flat[offs[i] + j]]]]

\* evaluation is any evaluation of at most maxp profiles, with names in names
\* and parent_profile in parents, holding at most maxc controls in all.
DrawEvaluation(maxp, maxc, names, parents, controls) ==
  \E k \in 0..maxp :
    \E lens \in {l \in [1..k -> 0..maxc] : SumTo(l, k) <= maxc} :
      \E flat \in [1..SumTo(lens, k) -> controls] :
        \E meta \in [1..k -> names \X parents] :
          evaluation = BuildEvaluation(meta, lens, flat)

\* ------------------------------------------------------- profile linking
\* Array.prototype.find on the profile wrappers: the first index whose data
\* has the name, 0 for no match.
RECURSIVE FindProfile(_, _, _)
FindProfile(contains, name, i) ==
  IF i > Len(contains) THEN 0
  ELSE IF contains[i].data.name = name THEN i
  ELSE FindProfile(contains, name, i + 1)

WrapProfiles(ev) ==
  [i \in 1..Len(ev) |->
     [data |-> ev[i], sourced_from |-> "eval_context",
      extended_by |-> <<>>, extends_from |-> <<>>, contains |-> <<>>]]

\* LinkProfile with a parent that was not found replaced by the first profile.
LinkProfileFallback(contains, i) ==
  IF contains[i].data.parent_profile = undefined THEN contains
  ELSE LET found == FindProfile(contains, contains[i].data.parent_profile, 1)
           parent == IF found = 0 THEN 1 ELSE found
       IN [[contains EXCEPT ![parent].extends_from = Append(@, i)]
             EXCEPT ![i].extended_by = Append(@, parent)]

\* LinkProfile without profile.extended_by.push(parent).
LinkProfileOneSided(contains, i) ==
  IF contains[i].data.parent_profile = undefined THEN contains
  ELSE LET parent == FindProfile(contains, contains[i].data.parent_profile, 1)
       IN IF parent = 0 THEN contains
          ELSE [contains EXCEPT ![parent].extends_from = Append(@, i)]

\* LinkProfile with the edge turned round: the declaring profile extends
\* from the profile it names.
LinkProfileReversed(contains, i) ==
  IF contains[i].data.parent_profile = undefined THEN contains
  ELSE LET parent == FindProfile(contains, contains[i].data.parent_profile, 1)
       IN IF parent = 0 THEN contains
          ELSE [[contains EXCEPT ![i].extends_from = Append(@, parent)]
                  EXCEPT ![parent].extended_by = Append(@, i)]

\* One iteration of the parentage loop, for the profile at index i.
LinkProfile(contains, i) ==
  IF contains[i].data.parent_profile = undefined THEN contains
  ELSE LET parent == FindProfile(contains, contains[i].data.parent_profile, 1)
       IN IF parent = 0 THEN contains
          ELSE LET pushed == [contains EXCEPT
                                ![parent].extends_from = Append(@, i)]
               IN [pushed EXCEPT ![i].extended_by = Append(@, parent)]

RECURSIVE LinkProfiles(_, _)
LinkProfiles(contains, i) ==
  IF i > Len(contains) THEN contains
  ELSE LinkProfiles(LinkProfile(contains, i), i + 1)

\* ------------------------------------------------------- control wrapping
\* new ContextualizedControlImp(c, profile, [], []), profile named by index.
WrapControl(c, profile) ==
  [data |-> c, sourced_from |-> profile,
   extended_by |-> <<>>, extends_from |-> <<>>]

\* The flat list all_controls: profile order, then control order.
RECURSIVE FlatControls(_, _)
FlatControls(ev, i) ==
  IF i > Len(ev) THEN <<>>
  ELSE [j \in 1..Len(ev[i].controls) |-> WrapControl(ev[i].controls[j], i)]
       \o FlatControls(ev, i + 1)

\* Index in all_controls of the first control of profile i, minus one.
RECURSIVE Offset(_, _)
Offset(ev, i) ==
  IF i <= 1 THEN 0 ELSE Offset(ev, i - 1) + Len(ev[i - 1].controls)

\* profile.contains = p_controls.map(...), as indices into all_controls.
WithControls(contains) ==
  [i \in 1..Len(contains) |->
     [contains[i] EXCEPT
        !.contains = [j \in 1..Len(contains[i].data.controls) |->
                        Offset([p \in 1..Len(contains) |-> contains[p].data], i) + j]]]

\* -------------------------------------------------------- control linking
\* FindControl without the comparison of ids: the first control of the list.
FindControlAny(acs, list, id, j) ==
  IF j > Len(list) THEN 0 ELSE list[j]

\* Array.prototype.find over a list of control indices: first with the id.
RECURSIVE FindControl(_, _, _, _)
FindControl(acs, list, id, j) ==
  IF j > Len(list) THEN 0
  ELSE IF acs[list[j]].data.id = id THEN list[j]
  ELSE FindControl(acs, list, id, j + 1)

\* FindAncestor without its break: a later extended profile's match replaces
\* an earlier one's.
RECURSIVE FindAncestorLast(_, _, _, _, _)
FindAncestorLast(profs, acs, extended, id, e) ==
  IF e > Len(extended) THEN 0
  ELSE LET later == FindAncestorLast(profs, acs, extended, id, e + 1)
       IN IF later # 0 THEN later
          ELSE FindControl(acs, profs[extended[e]].contains, id, 1)

\* The loop over cc.sourced_from.extends_from with its break: the first
\* match of the first extended profile that has one, 0 when none has.
RECURSIVE FindAncestor(_, _, _, _, _)
FindAncestor(profs, acs, extended, id, e) ==
  IF e > Len(extended) THEN 0
  ELSE LET ancestor == FindControl(acs, profs[extended[e]].contains, id, 1)
       IN IF ancestor # 0 THEN ancestor
          ELSE FindAncestor(profs, acs, extended, id, e + 1)

\* Bind without ancestor.extended_by.push(cc).
BindOneSided(acs, cc, ancestor) ==
  [acs EXCEPT ![cc].extends_from = Append(@, ancestor)]

\* ancestor.extended_by.push(cc); cc.extends_from.push(ancestor)
Bind(acs, cc, ancestor) ==
  LET pushed == [acs EXCEPT ![ancestor].extended_by = Append(@, cc)]
  IN [pushed EXCEPT ![cc].extends_from = Append(@, ancestor)]

\* c.hdf.segments of an evaluation's control: its result list.
Segments(c) == c.data.results

\* all_controls.filter((c) => c.data.id === cc.data.id), as indices.
RECURSIVE SameId(_, _, _)
SameId(acs, id, j) ==
  IF j > Len(acs) THEN <<>>
  ELSE (IF acs[j].data.id = id THEN <<j>> ELSE <<>>) \o SameId(acs, id, j + 1)

\* same_id.find((c) => c.hdf.segments && c.hdf.segments.length)
RECURSIVE FindPopulated(_, _, _)
FindPopulated(acs, same_id, j) ==
  IF j > Len(same_id) THEN 0
  ELSE IF Len(Segments(acs[same_id[j]])) > 0 THEN same_id[j]
  ELSE FindPopulated(acs, same_id, j + 1)

\* SameIdPopulated choosing the same-id control just before cc (cc itself
\* when it is the first): each control extends the previous one.
SameIdPrevious(acs, cc) ==
  LET before == {c \in 1..cc : acs[c].data.id = acs[cc].data.id /\ c < cc}
  IN IF before = {} THEN cc
     ELSE CHOOSE c \in before : \A d \in before : d <= c

\* SameIdPopulated without the search for a populated control.
SameIdFirst(acs, cc) == SameId(acs, acs[cc].data.id, 1)[1]

\* The base of Case B: the populated one, else same_id[0].
SameIdPopulated(acs, cc) ==
  LET same_id == SameId(acs, acs[cc].data.id, 1)
      found == FindPopulated(acs, same_id, 1)
  IN IF found = 0 THEN same_id[1] ELSE found

\* LinkControl with the test of sourced_from.extended_by left out of the
\* condition that chooses between the two cases.
LinkControlByExtendsFrom(profs, acs, cc) ==
  LET sourced_from == profs[acs[cc].sourced_from]
  IN IF Len(sourced_from.extends_from) > 0
     THEN LET ancestor == FindAncestor(profs, acs, sourced_from.extends_from,
                                       acs[cc].data.id, 1)
          IN IF ancestor # 0 THEN Bind(acs, cc, ancestor) ELSE acs
     ELSE LET same_id_populated == SameIdPopulated(acs, cc)
          IN IF cc = same_id_populated THEN acs
             ELSE Bind(acs, cc, same_id_populated)

\* LinkControl with Case B applied to a Case A control that found no ancestor.
LinkControlFallback(profs, acs, cc) ==
  LET sourced_from == profs[acs[cc].sourced_from]
      same_id_populated == SameIdPopulated(acs, cc)
      bound == IF cc = same_id_populated THEN acs
               ELSE Bind(acs, cc, same_id_populated)
  IN IF Len(sourced_from.extends_from) > 0 \/ Len(sourced_from.extended_by) > 0
     THEN IF Len(sourced_from.extends_from) = 0 THEN acs
          ELSE LET ancestor == FindAncestor(profs, acs, sourced_from.extends_from,
                                            acs[cc].data.id, 1)
               IN IF ancestor # 0 THEN Bind(acs, cc, ancestor) ELSE bound
     ELSE bound

\* One iteration of the loop over all_controls, for the control at index cc.
LinkControl(profs, acs, cc) ==
  LET sourced_from == profs[acs[cc].sourced_from]
  IN IF Len(sourced_from.extends_from) > 0 \/ Len(sourced_from.extended_by) > 0
     THEN IF Len(sourced_from.extends_from) = 0 THEN acs
          ELSE LET ancestor == FindAncestor(profs, acs, sourced_from.extends_from,
                                            acs[cc].data.id, 1)
               IN IF ancestor # 0 THEN Bind(acs, cc, ancestor) ELSE acs
     ELSE LET same_id_populated == SameIdPopulated(acs, cc)
          IN IF cc = same_id_populated THEN acs
             ELSE Bind(acs, cc, same_id_populated)

RECURSIVE LinkControls(_, _, _)
LinkControls(profs, acs, cc) ==
  IF cc > Len(acs) THEN acs
  ELSE LinkControls(profs, LinkControl(profs, acs, cc), cc + 1)

\* contextualizeEvaluation: the profile wrappers and the control wrappers.
EvalProfiles(ev) == WithControls(LinkProfiles(WrapProfiles(ev), 1))
EvalControls(ev) == LinkControls(EvalProfiles(ev), FlatControls(ev, 1), 1)

\* ----------------------------------------------------------- derived views
\* The value root has when its while loop never exits.
Diverges == 0

\* The owning profile wrapper of a control: a profile of the evaluation, or
\* the one profile of contextualizeProfile (sourced_from 0).
SourcedFrom(c) ==
  IF c.sourced_from = 0 THEN profile_context
  ELSE eval_context.contains[c.sourced_from]

\* get root(): follow extends_from[0] while extends_from is not empty.  A
\* walk of more steps than there are controls is in a cycle and never ends.
RECURSIVE RootFrom(_, _)
RootFrom(curr, steps) ==
  IF Len(all_controls[curr].extends_from) = 0 THEN curr
  ELSE IF steps >= Len(all_controls) THEN Diverges
  ELSE RootFrom(all_controls[curr].extends_from[1], steps + 1)

root(cc) == RootFrom(cc, 0)

\* The number of iterations of root's loop, when it exits.
RECURSIVE RootSteps(_, _)
RootSteps(curr, steps) ==
  IF Len(all_controls[curr].extends_from) = 0 THEN steps
  ELSE IF steps >= Len(all_controls) THEN steps + 1
  ELSE RootSteps(all_controls[curr].extends_from[1], steps + 1)

Whitespace == {" ", "\n"}

\* String.prototype.trim
RECURSIVE TrimStart(_)
TrimStart(s) ==
  IF Len(s) > 0 /\ Head(s) \in Whitespace THEN TrimStart(Tail(s)) ELSE s

RECURSIVE TrimEnd(_)
TrimEnd(s) ==
  IF Len(s) > 0 /\ s[Len(s)] \in Whitespace
  THEN TrimEnd(SubSeq(s, 1, Len(s) - 1)) ELSE s

trim(s) == TrimEnd(TrimStart(s))

\* !this.data.code || this.data.code.trim() === ''
BlankCode(cc) ==
  LET code == all_controls[cc].data.code
  IN code = undefined \/ code = <<>> \/ trim(code) = <<>>

\* get is_redundant(); it returns unless it has to read a root that diverges.
IsRedundantReturns(cc) ==
  BlankCode(cc) \/ Len(all_controls[cc].extends_from) = 0 \/ root(cc) # Diverges

is_redundant(cc) ==
  \/ BlankCode(cc)
  \/ /\ Len(all_controls[cc].extends_from) > 0
     /\ root(cc) # Diverges
     /\ all_controls[cc].data.code = all_controls[root(cc)].data.code

Rule == "========================================================="

Banner(name) ==
  <<Rule, "\n", "# Profile name: ", name, "\n", Rule, "\n", "\n">>

\* What full_code is when its recursion never bottoms out.
RangeError == <<"RangeError">>

\* get full_code(), depth counting the nested calls.
RECURSIVE FullCodeFrom(_, _)
FullCodeFrom(cc, depth) ==
  LET this == all_controls[cc]
  IN IF Len(this.extends_from) > 0
     THEN IF depth >= Len(all_controls) \/ ~IsRedundantReturns(cc) THEN RangeError
          ELSE LET ancestor == FullCodeFrom(this.extends_from[1], depth + 1)
               IN IF ancestor = RangeError THEN RangeError
                  ELSE IF is_redundant(cc) THEN ancestor
                  ELSE trim(Banner(SourcedFrom(this).data.name)
                            \o this.data.code
                            \o <<"\n", "\n">> \o ancestor)
     ELSE trim(Banner(SourcedFrom(this).data.name) \o this.data.code)

full_code(cc) == FullCodeFrom(cc, 0)

\* ----------------------------------------------------------------- actions
\* contextualizeEvaluation(evaluation)
ContextualizeEvaluation ==
  /\ pc = "start"
  /\ eval_context' = [data |-> evaluation, contains |-> EvalProfiles(evaluation)]
  /\ all_controls' = EvalControls(evaluation)
  /\ pc' = "contextualizeEvaluation"
  /\ UNCHANGED <<evaluation, profile_context>>

\* ProfileControls with a control linked to the first control of its id.
ProfileControlsLinked(profile) ==
  [j \in 1..Len(profile.controls) |->
     LET first == CHOOSE k \in 1..j :
                    /\ profile.controls[k].id = profile.controls[j].id
                    /\ \A m \in 1..(k - 1) :
                         profile.controls[m].id # profile.controls[j].id
     IN [WrapControl(profile.controls[j], 0) EXCEPT
           !.extends_from = IF first = j THEN <<>> ELSE <<first>>]]

\* The loop of contextualizeProfile: one wrapper per control, pushed in
\* source order; the owning profile_context is named by 0.
ProfileControls(profile) ==
  [j \in 1..Len(profile.controls) |-> WrapControl(profile.controls[j], 0)]

\* contextualizeProfile(profile), called for an independent profile: the one
\* profile of a file that holds a single profile.
ContextualizeProfile ==
  /\ pc = "start"
  /\ Len(evaluation) = 1
  /\ profile_context' =
       [data |-> evaluation[1], extended_by |-> <<>>, extends_from |-> <<>>,
        contains |-> [j \in 1..Len(ProfileControls(evaluation[1])) |-> j],
        sourced_from |-> null]
  /\ all_controls' = ProfileControls(evaluation[1])
  /\ pc' = "contextualizeProfile"
  /\ UNCHANGED <<evaluation, eval_context>>

Start ==
  /\ pc = "start"
  /\ eval_context = null
  /\ profile_context = null
  /\ all_controls = <<>>

\* Evaluations with declared parentage whose controls differ in id.
Init ==
  /\ DrawEvaluation(MaxProfiles, MaxControls, ProfileNames,
                    ProfileNames \cup {undefined},
                    RawControls({<<"a">>}, {<<>>}))
  \* Names are only compared for equality (by find), so the evaluations
  \* whose first profile is named "B" mirror the ones kept here.
  /\ Len(evaluation) > 0 => evaluation[1].name = "A"
  /\ Start

\* Evaluations without declared parentage whose controls differ in id and in
\* having results.
InitB ==
  /\ DrawEvaluation(MaxProfiles, MaxControls, ProfileNames, {undefined},
                    RawControls({<<"a">>}, ResultLists))
  /\ Start

\* Evaluations with declared parentage whose controls differ in code.
InitCode ==
  /\ DrawEvaluation(MaxCodeProfiles, MaxCodeControls, ProfileNames,
                    ProfileNames \cup {undefined},
                    {c \in RawControls(Codes, {<<>>}) : c.id = "x"})
  /\ Start

Next ==
  \/ ContextualizeEvaluation
  \/ ContextualizeProfile

Spec == Init /\ [][Next]_vars
SpecB == InitB /\ [][Next]_vars
SpecCode == InitCode /\ [][Next]_vars

\* -------------------------------------------------------------- properties
Done == pc = "contextualizeEvaluation"
DoneProfile == pc = "contextualizeProfile"

Controls == 1..Len(all_controls)
Profiles == 1..Len(evaluation)
Wrapper(p) == eval_context.contains[p]
Owner(cc) == all_controls[cc].sourced_from
IdOf(cc) == all_controls[cc].data.id
Range(seq) == {seq[i] : i \in DOMAIN seq}
Count(seq, x) == Cardinality({i \in DOMAIN seq : seq[i] = x})
MinOf(S) == CHOOSE x \in S : \A y \in S : x <= y

\* The controls of profile p that have the id, and the first of them.
WithId(p, id) == {c \in Controls : Owner(c) = p /\ IdOf(c) = id}
FirstWithId(p, id) == MinOf(WithId(p, id))

\* C1: after contextualizeEvaluation no control is in its own extends_from
\* and root ends within N iterations for every control, N the number of
\* controls of the evaluation.
C1_LoopFree ==
  Done => \A cc \in Controls :
            /\ cc \notin Range(all_controls[cc].extends_from)
            /\ RootSteps(cc, 0) <= Len(all_controls)

\* C3: a control whose owning profile extends profiles, some of which hold a
\* control of its id, has extends_from = [the first control of that id in the
\* first such profile, in extends_from order] and nothing else; with
\* extends_from = [A, B] and the id in both, that is A's control, not B's.
ExtendedWithId(cc) ==
  {e \in DOMAIN Wrapper(Owner(cc)).extends_from :
     WithId(Wrapper(Owner(cc)).extends_from[e], IdOf(cc)) # {}}

C3_CaseATieBreak ==
  Done => \A cc \in Controls :
            ExtendedWithId(cc) # {} =>
              LET ext == Wrapper(Owner(cc)).extends_from
                  first == ext[MinOf(ExtendedWithId(cc))]
              IN /\ all_controls[cc].extends_from = <<FirstWithId(first, IdOf(cc))>>
                 /\ \A e \in ExtendedWithId(cc) :
                      ext[e] # first =>
                        WithId(ext[e], IdOf(cc)) \cap Range(all_controls[cc].extends_from) = {}

C3_Witness ==
  /\ Done
  /\ \E cc \in Controls :
       LET ext == Wrapper(Owner(cc)).extends_from
       IN /\ Len(ext) = 2
          /\ Cardinality({Owner(cc), ext[1], ext[2]}) = 3
          /\ ExtendedWithId(cc) = {1, 2}
          /\ all_controls[cc].extends_from = <<FirstWithId(ext[1], IdOf(cc))>>

\* C4: when no profile declares a parent, the base of the controls sharing
\* an id is the first of them, in flat-list order, with a non-empty result
\* list, or the first of them when none has results; every other one has
\* extends_from = [base], the base has none.  With the id held once by each
\* of two profiles, the first without results: P1.x.extends_from = [P2.x]
\* and P2.x.extended_by = [P1.x].
NoParentage == \A p \in Profiles : evaluation[p].parent_profile = undefined
Peers(id) == {c \in Controls : IdOf(c) = id}
HasResults(c) == Len(all_controls[c].data.results) > 0
BaseOf(id) ==
  IF \E c \in Peers(id) : HasResults(c)
  THEN MinOf({c \in Peers(id) : HasResults(c)})
  ELSE MinOf(Peers(id))

Scenario2(c1, c2) ==
  /\ Len(evaluation) = 2
  /\ Owner(c1) = 1 /\ Owner(c2) = 2
  /\ Peers(IdOf(c1)) = {c1, c2}
  /\ ~HasResults(c1) /\ HasResults(c2)

C4_CaseBTieBreak ==
  (Done /\ NoParentage) =>
     /\ \A cc \in Controls :
          all_controls[cc].extends_from =
            IF cc = BaseOf(IdOf(cc)) THEN <<>> ELSE <<BaseOf(IdOf(cc))>>
     /\ \A c1, c2 \in Controls :
          Scenario2(c1, c2) =>
            /\ all_controls[c1].extends_from = <<c2>>
            /\ all_controls[c2].extended_by = <<c1>>

C4_Witness ==
  /\ Done /\ NoParentage
  /\ \E c1, c2 \in Controls :
       /\ Scenario2(c1, c2)
       /\ all_controls[c1].extends_from = <<c2>>
       /\ all_controls[c2].extended_by = <<c1>>

\* C6: contextualizeProfile returns a wrapper with sourced_from = null and
\* empty extends_from and extended_by, holding one wrapper per control in
\* source order, each with empty extends_from and extended_by.
C6_SingleProfile ==
  DoneProfile =>
    /\ profile_context.sourced_from = null
    /\ profile_context.extends_from = <<>>
    /\ profile_context.extended_by = <<>>
    /\ Len(profile_context.contains) = Len(profile_context.data.controls)
    /\ \A j \in DOMAIN profile_context.contains :
         LET c == all_controls[profile_context.contains[j]]
         IN /\ c.data = profile_context.data.controls[j]
            /\ c.extends_from = <<>>
            /\ c.extended_by = <<>>

C6_Witness ==
  /\ DoneProfile
  /\ \E j, k \in DOMAIN profile_context.contains :
       /\ j < k
       /\ IdOf(profile_context.contains[j]) = IdOf(profile_context.contains[k])
       /\ all_controls[profile_context.contains[k]].extends_from = <<>>

\* C8: a declared parent_profile that names no profile of the evaluation
\* adds no profile-level edge, and the evaluation is contextualized as it is
\* with that declaration absent: same profile edges, same control edges.
Unmatched(p) ==
  /\ evaluation[p].parent_profile # undefined
  /\ \A q \in Profiles : evaluation[q].name # evaluation[p].parent_profile

WithoutUnmatched ==
  [p \in Profiles |->
     IF Unmatched(p) THEN [evaluation[p] EXCEPT !.parent_profile = undefined]
     ELSE evaluation[p]]

C8_UnmatchedParent ==
  Done =>
    /\ \A p \in Profiles :
         Unmatched(p) =>
           /\ Wrapper(p).extended_by = <<>>
           /\ \A q \in Profiles : p \notin Range(Wrapper(q).extends_from)
    /\ (\E p \in Profiles : Unmatched(p)) =>
         /\ all_controls = EvalControls(WithoutUnmatched)
         /\ \A p \in Profiles :
              /\ Wrapper(p).extends_from = EvalProfiles(WithoutUnmatched)[p].extends_from
              /\ Wrapper(p).extended_by = EvalProfiles(WithoutUnmatched)[p].extended_by

C8_Witness ==
  /\ Done
  /\ \E cc \in Controls :
       /\ Unmatched(Owner(cc))
       /\ Wrapper(Owner(cc)).extends_from = <<>>
       /\ Wrapper(Owner(cc)).extended_by = <<>>
       /\ all_controls[cc].extends_from # <<>>

\* C9: profile p holds q in extends_from exactly once when q declares a
\* parent_profile that names p (p the first profile of that name), and not at
\* all otherwise; q then holds p in extended_by exactly once, and not at all
\* otherwise.  Controls linked by their id add no profile-level edge.
DeclaredParent(q) ==
  IF /\ evaluation[q].parent_profile # undefined
     /\ \E p \in Profiles : evaluation[p].name = evaluation[q].parent_profile
  THEN MinOf({p \in Profiles : evaluation[p].name = evaluation[q].parent_profile})
  ELSE 0

C9_ProfileEdgesDeclared ==
  Done => \A p, q \in Profiles :
            LET edges == IF DeclaredParent(q) = p THEN 1 ELSE 0
            IN /\ Count(Wrapper(p).extends_from, q) = edges
               /\ Count(Wrapper(q).extended_by, p) = edges

C9_Witness ==
  /\ Done
  /\ \E p, q \in Profiles :
       /\ p # q
       /\ DeclaredParent(q) = p
       /\ Wrapper(p).extends_from = <<q>>
       /\ Wrapper(q).extended_by = <<p>>
  /\ \E cc \in Controls :
       /\ Wrapper(Owner(cc)).extends_from = <<>>
       /\ Wrapper(Owner(cc)).extended_by = <<>>
       /\ all_controls[cc].extends_from # <<>>

\* C10: a control whose owning profile has a non-empty extended_by and an
\* empty extends_from ends with an empty extends_from.
C10_BaselineSkipped ==
  Done => \A cc \in Controls :
            (/\ Len(Wrapper(Owner(cc)).extended_by) > 0
             /\ Len(Wrapper(Owner(cc)).extends_from) = 0)
              => all_controls[cc].extends_from = <<>>

C10_Witness ==
  /\ Done
  /\ \E cc \in Controls :
       /\ Len(Wrapper(Owner(cc)).extended_by) > 0
       /\ Len(Wrapper(Owner(cc)).extends_from) = 0
       /\ all_controls[cc].extends_from = <<>>
       /\ all_controls[cc].extended_by # <<>>
       /\ MinOf(Peers(IdOf(cc))) # cc

\* C7: for every control of a contextualized evaluation or profile, root
\* returns a control with empty extends_from whose own root is itself.
C7_IdempotentRoot ==
  (Done \/ DoneProfile) =>
    \A cc \in Controls :
      /\ root(cc) # Diverges
      /\ root(root(cc)) = root(cc)
      /\ all_controls[root(cc)].extends_from = <<>>

\* C5: a control that is_redundant has the full_code of its extends_from[0].
C5_RedundancyCollapse ==
  (Done \/ DoneProfile) =>
    \A cc \in Controls :
      is_redundant(cc) =>
        /\ Len(all_controls[cc].extends_from) > 0
        /\ full_code(cc) # RangeError
        /\ full_code(cc) = full_code(all_controls[cc].extends_from[1])

\* C2 as stated: with B declaring parent_profile = A's name, A declaring no
\* parent and both holding the id, B's control has extends_from = [A's
\* control], A's control has none, and B's control with empty code
\* is_redundant with A's control's full_code.
Scenario1(a, b) ==
  /\ evaluation[a].name # evaluation[b].name
  /\ evaluation[a].parent_profile = undefined
  /\ evaluation[b].parent_profile = evaluation[a].name

C2_ChildExtendsParent ==
  Done => \A a, b \in Profiles :
            Scenario1(a, b) =>
              \A cb \in Controls :
                (Owner(cb) = b /\ WithId(a, IdOf(cb)) # {}) =>
                  LET ca == FirstWithId(a, IdOf(cb))
                  IN /\ all_controls[cb].extends_from = <<ca>>
                     /\ all_controls[ca].extends_from = <<>>
                     /\ all_controls[cb].data.code = <<>> =>
                          /\ is_redundant(cb)
                          /\ full_code(cb) = full_code(ca)

\* C2 amended: the edge runs from the named profile to the declaring one.
\* With B the only profile declaring A's name, A the first profile of that
\* name declaring no parent, no parent_profile resolving to B, and both
\* holding the id: A's control has extends_from = [B's first control of the
\* id], B's controls have none, and A's control with empty code is_redundant
\* with the full_code of that control of B.
Scenario1Strict(a, b) ==
  /\ a # b
  /\ evaluation[a].parent_profile = undefined
  /\ DeclaredParent(b) = a
  /\ \A q \in Profiles : DeclaredParent(q) = a => q = b
  /\ \A q \in Profiles : DeclaredParent(q) # b

C2_ParentExtendsChild ==
  Done => \A a, b \in Profiles :
            Scenario1Strict(a, b) =>
              /\ \A cb \in Controls :
                   Owner(cb) = b => all_controls[cb].extends_from = <<>>
              /\ \A ca \in Controls :
                   (Owner(ca) = a /\ WithId(b, IdOf(ca)) # {}) =>
                     LET cb == FirstWithId(b, IdOf(ca))
                     IN /\ all_controls[ca].extends_from = <<cb>>
                        /\ all_controls[ca].data.code = <<>> =>
                             /\ is_redundant(ca)
                             /\ full_code(ca) = full_code(cb)

C2_Witness ==
  /\ Done
  /\ \E a, b \in Profiles :
       /\ Scenario1Strict(a, b)
       /\ \E ca, cb \in Controls :
            /\ Owner(ca) = a /\ Owner(cb) = b
            /\ all_controls[ca].data.code = <<>>
            /\ all_controls[cb].data.code = <<"a">>
            /\ all_controls[ca].extends_from = <<cb>>
            /\ is_redundant(ca)
            /\ full_code(ca) = full_code(cb)

\* C11: a control whose owning profile extends profiles, none of which
\* holds a control of its id, ends with an empty extends_from, also when
\* other profiles of the evaluation hold controls of that id.
C11_CaseANoMatch ==
  Done => \A cc \in Controls :
            (/\ Len(Wrapper(Owner(cc)).extends_from) > 0
             /\ ExtendedWithId(cc) = {})
              => all_controls[cc].extends_from = <<>>

C11_Witness ==
  /\ Done
  /\ \E cc \in Controls :
       /\ Len(Wrapper(Owner(cc)).extends_from) > 0
       /\ ExtendedWithId(cc) = {}
       /\ \E other \in Peers(IdOf(cc)) :
            /\ other < cc
            /\ Owner(other) # Owner(cc)
            /\ Owner(other) \notin Range(Wrapper(Owner(cc)).extends_from)
       /\ all_controls[cc].extends_from = <<>>

\* C12: when no profile has a profile-level edge, each id has exactly one
\* control with empty extends_from, its base; every other control of the id
\* has extends_from = [base] and empty extended_by; the base's extended_by is
\* those other controls in flat-list order; root is at most one step away.
NoProfileEdges ==
  \A p \in Profiles :
    Wrapper(p).extends_from = <<>> /\ Wrapper(p).extended_by = <<>>

Unlinked(id) == {c \in Peers(id) : all_controls[c].extends_from = <<>>}

\* A sequence is strictly increasing and its elements are exactly S.
Ascending(seq, S) ==
  /\ Range(seq) = S
  /\ \A i, j \in DOMAIN seq : i < j => seq[i] < seq[j]

C12_CaseBSiblings ==
  (Done /\ NoProfileEdges) =>
    \A cc \in Controls :
      LET peers == Peers(IdOf(cc))
      IN /\ Cardinality(Unlinked(IdOf(cc))) = 1
         /\ \E base \in Unlinked(IdOf(cc)) :
              /\ cc # base => /\ all_controls[cc].extends_from = <<base>>
                              /\ all_controls[cc].extended_by = <<>>
              /\ Ascending(all_controls[base].extended_by, peers \ {base})
         /\ RootSteps(cc, 0) <= 1

C12_Witness ==
  /\ Done /\ NoProfileEdges
  /\ \E c1, c2, c3 \in Controls :
       /\ c1 < c2 /\ c2 < c3
       /\ Peers(IdOf(c1)) = {c1, c2, c3}
       /\ Cardinality({Owner(c1), Owner(c2), Owner(c3)}) = 3
       /\ all_controls[c2].extends_from = <<>>
       /\ all_controls[c2].extended_by = <<c1, c3>>
       /\ all_controls[c1].extends_from = <<c2>>
       /\ all_controls[c3].extends_from = <<c2>>

\* C13: full_code of a control without ancestor is its code under its
\* profile-name banner; with an ancestor and not redundant it is its banner
\* and code followed by the full_code of extends_from[0]; along a chain the
\* layers run from the control to the root, redundant non-root ones left out.
OwnText(cc) ==
  Banner(SourcedFrom(all_controls[cc]).data.name) \o all_controls[cc].data.code

\* The layers from cc to the end of its chain; RangeError when it has no end.
RECURSIVE LayersFrom(_, _)
LayersFrom(cc, steps) ==
  IF all_controls[cc].extends_from = <<>> THEN trim(OwnText(cc))
  ELSE IF steps >= Len(all_controls) THEN RangeError
  ELSE LET rest == LayersFrom(all_controls[cc].extends_from[1], steps + 1)
       IN IF rest = RangeError THEN RangeError
          ELSE IF is_redundant(cc) THEN rest
          ELSE OwnText(cc) \o <<"\n", "\n">> \o rest

C13_FullCodeLayering ==
  (Done \/ DoneProfile) =>
    \A cc \in Controls :
      /\ full_code(cc) # RangeError
      /\ all_controls[cc].extends_from = <<>> =>
           full_code(cc) = trim(OwnText(cc))
      /\ (all_controls[cc].extends_from # <<>> /\ ~is_redundant(cc)) =>
           full_code(cc) = OwnText(cc) \o <<"\n", "\n">>
                             \o full_code(all_controls[cc].extends_from[1])
      /\ full_code(cc) = LayersFrom(cc, 0)

\* C14: at the profile level and at the control level, b occurs in
\* a.extends_from as many times as a occurs in b.extended_by.
C14_EdgeSymmetry ==
  Done =>
    /\ \A a, b \in Profiles :
         Count(Wrapper(a).extends_from, b) = Count(Wrapper(b).extended_by, a)
    /\ \A a, b \in Controls :
         Count(all_controls[a].extends_from, b) = Count(all_controls[b].extended_by, a)

C14_Witness ==
  /\ Done
  /\ \E a, b \in Profiles :
       a # b /\ Count(Wrapper(a).extends_from, b) = 1
             /\ Count(Wrapper(b).extended_by, a) = 1
  /\ \E a, b \in Controls :
       /\ Wrapper(Owner(a)).extends_from # <<>>
       /\ Count(all_controls[a].extends_from, b) = 1
       /\ Count(all_controls[b].extended_by, a) = 1
  /\ \E a, b \in Controls :
       /\ Wrapper(Owner(a)).extends_from = <<>>
       /\ Count(all_controls[a].extends_from, b) = 1
       /\ Count(all_controls[b].extended_by, a) = 1

\* C15: every control has at most one entry in extends_from, and that entry
\* is a control of the evaluation with the control's own id; so every
\* control met on the way to root has that id.
C15_SingleSameIdAncestor ==
  Done => \A cc \in Controls :
            /\ Len(all_controls[cc].extends_from) <= 1
            /\ \A e \in Range(all_controls[cc].extends_from) :
                 e \in Controls /\ IdOf(e) = IdOf(cc)
            /\ root(cc) # Diverges => IdOf(root(cc)) = IdOf(cc)

C15_Witness ==
  /\ Done
  /\ \E cc, e, other \in Controls :
       /\ all_controls[cc].extends_from = <<e>>
       /\ Owner(e) # Owner(cc)
       /\ Owner(other) = Owner(e)
       /\ other < e
       /\ IdOf(other) # IdOf(cc)
       /\ IdOf(e) = IdOf(cc)

====
